---- MODULE Spec2Model ----
(***************************************************************************)
(* Model of the impact-client-python client library.                       *)
(*                                                                         *)
(*   Spec    Client construction (modelon/impact/client/client.py):        *)
(*           version negotiation, JupyterHub authorization, login with     *)
(*           the one-shot interactive retry, license check.                *)
(*   SpecOp  The long-running-operation wait/poll loop and the server job  *)
(*           it observes.                                                  *)
(***************************************************************************)
EXTENDS Integers, Sequences, FiniteSets, TLC

(***************************************************************************)
(* Bounds of the model.                                                    *)
(***************************************************************************)
MaxMajor == 4
MaxMinor == 22
MaxPatch == 4
MaxTimeout == 3     \* largest timeout passed to wait, in poll delays
MaxElapsed == 5     \* wall-clock horizon of a wait, in poll delays
MaxStatusCalls == 2 \* status() calls made outside wait
MaxDicts == 3       \* option dictionaries alive at once
MaxItems == 2       \* items of a list response
MaxEntries == 2     \* references of a definition, entries of a matching response
MaxCases == 2       \* cases given to execute
MaxDefinitions == 3 \* experiment definitions built in a chain

(***************************************************************************)
(* Semantic versions are triples <<major, minor, patch>>, compared         *)
(* numerically component by component as semantic_version.Version does.    *)
(***************************************************************************)
Versions == (0..MaxMajor) \X (0..MaxMinor) \X (0..MaxPatch)

VersionLess(a, b) ==
    \/ a[1] < b[1]
    \/ a[1] = b[1] /\ a[2] < b[2]
    \/ a[1] = b[1] /\ a[2] = b[2] /\ a[3] < b[3]

VersionGte(a, b) == ~VersionLess(a, b)

\* The range '>=1.2.1,<2.0.0' of the first API generation.
FIRST_GENERATION_VERSION_RANGE == << <<1, 2, 1>>, <<2, 0, 0>> >>

\* Client._SUPPORTED_VERSION_RANGE = ">=1.21.3,<4.0.0": <<lower, upper>>.
SUPPORTED_VERSION_RANGE == << <<1, 21, 3>>, <<4, 0, 0>> >>

\* Version(version) in SimpleSpec(range): lower <= version < upper.
InSimpleSpec(version, range) ==
    VersionGte(version, range[1]) /\ VersionLess(version, range[2])

(***************************************************************************)
(* API keys.  "None" is Python's None and "" the empty string; both are    *)
(* falsy, every other key is truthy.                                       *)
(***************************************************************************)
Keys == {"k1", "k2"}
KeyVals == {"None", ""} \cup Keys

Truthy(key) == key \notin {"None", ""}

\* Body of POST /api/login built by the service layer for a key.
LoginBody(key) == IF Truthy(key) THEN {<<"secretKey", key>>} ELSE {}

(***************************************************************************)
(* What a request comes back with: <<status, version>>.  status is "ok" or *)
(* the exception the service layer raises; version is the "version" field  *)
(* of the metadata payload, <<>> for every other response.                 *)
(***************************************************************************)
MetaErrors == {"CommunicationError", "AccessingJupyterHubError", "HTTPError"}
MetaResponses ==
    {<<"ok", v>> : v \in Versions} \cup {<<e, <<>>>> : e \in MetaErrors}
LoginResponses == {<<s, <<>>>> : s \in {"ok", "HTTPError", "CommunicationError"}}
\* users/me: "ok" carries a license entry, "nolicense" is a payload without.
MeResponses == {<<s, <<>>>> : s \in {"ok", "nolicense", "HTTPError"}}

VARIABLES
    pc,             \* position of the constructor
    interactive,    \* the interactive argument
    requests,       \* request history: <<url, body, response>>
    getKeyCalls,    \* what each call of credential_manager.get_key returned
    promptCalls,    \* what each call of get_key_from_prompt returned
    written,        \* keys passed to credential_manager.write_key_to_file
    warnings,       \* warnings logged
    authorizeCalls, \* calls of jupyterhub.authorize
    service,        \* the service requests go through: "initial", "authorized"
    apiKey,         \* the api_key local of __init__
    retryKey,       \* key handed to sal.add_login_retry_with
    error,          \* exception the constructor raised, "none" if none
    cause,          \* __cause__ of that exception
    errMsg          \* <<version, range>> formatted into the message

clientVars == <<pc, interactive, requests, getKeyCalls, promptCalls, written,
                warnings, authorizeCalls, service, apiKey, retryKey, error, cause,
                errMsg>>

VARIABLES
    jobState,       \* state of the server-side job
    opPc,           \* position of wait: "idle", "polling", "returned", "raised"
    timeout,        \* the timeout argument of wait, 0 for None
    elapsed,        \* time since wait started, in poll delays
    observed,       \* status of the latest poll response, "none" before any
    polls,          \* the status each poll response carried, in order
    statusCalls,    \* calls of status() outside wait
    opError,        \* exception wait raised, "none" if none
    opResult        \* what wait returned, "none" if nothing

opVars == <<jobState, opPc, timeout, elapsed, observed, polls, statusCalls,
            opError, opResult>>

VARIABLES
    libCall,        \* the entity or client method called last, with its arguments
    libRet,         \* what that call returned or raised
    libSal,         \* the service calls it issued, in order
    heap            \* the dictionaries alive: reference -> names -> value

libVars == <<libCall, libRet, libSal, heap>>

VARIABLES
    serverProject,      \* the project as the server holds it now
    projectDefinition   \* the _project_definition a Project object holds

projectVars == <<serverProject, projectDefinition>>

vars == <<clientVars, opVars, libVars, projectVars>>

\* A request in the history: what was asked, what came back, and the
\* service it went through.
Request(url, body, response) == <<url, body, response, service>>

LoginRequests == SelectSeq(requests, LAMBDA r : r[1] = "/api/login")
MetaRequests == SelectSeq(requests, LAMBDA r : r[1] = "/api/")
MeRequests == SelectSeq(requests, LAMBDA r : r[1] = "/api/users/me")

\* The states of an Operation and the terminal ones among them.
OperationStates == {"NOT_STARTED", "RUNNING", "DONE", "FAILED", "CANCELLED"}
TerminalStates == {"DONE", "FAILED", "CANCELLED"}

\* No operation has been started.
OpIdle ==
    /\ jobState = "NOT_STARTED"
    /\ opPc = "idle"
    /\ timeout = 0
    /\ elapsed = 0
    /\ observed = "none"
    /\ polls = <<>>
    /\ statusCalls = 0
    /\ opError = "none"
    /\ opResult = "none"

\* The content lists a project can have.
ContentLists ==
    { <<>>,
      <<[id |-> "c1", contentType |-> "MODELICA"]>>,
      <<[id |-> "c1", contentType |-> "MODELICA"],
        [id |-> "c2", contentType |-> "VIEWS"]>>,
      <<[id |-> "c2", contentType |-> "VIEWS"],
        [id |-> "c3", contentType |-> "MODELICA"]>> }

\* What project_get answers with: the project as the server holds it.
ServerProjects ==
    [id : {"p1"}, definition : [name : {"A", "B"}, content : ContentLists]]

\* Content.from_dict(content) for each entry of the content list.
ContentsFromDicts(contents) ==
    [i \in 1..Len(contents) |->
        [id |-> contents[i].id, content_type |-> contents[i].contentType]]

\* ProjectDefinition.from_dict(data) with the content list.
DefinitionFromProject(data) ==
    [name |-> data.definition.name,
     content |-> ContentsFromDicts(data.definition.content)]

\* No project is looked at: one unchanging project, held as the server has it.
ProjectIdle ==
    /\ serverProject = [id |-> "p1", definition |-> [name |-> "A", content |-> <<>>]]
    /\ projectDefinition = DefinitionFromProject(serverProject)

\* No entity method has been called.
LibIdle ==
    /\ libCall = <<"none">>
    /\ libRet = <<"none">>
    /\ libSal = <<>>
    /\ heap = <<>>

Init ==
    /\ OpIdle
    /\ LibIdle
    /\ ProjectIdle
    /\ pc = "validate"
    /\ interactive \in BOOLEAN
    /\ requests = <<>>
    /\ getKeyCalls = <<>>
    /\ promptCalls = <<>>
    /\ written = <<>>
    /\ warnings = <<>>
    /\ authorizeCalls = 0
    /\ service = "initial"
    /\ apiKey = "None"
    /\ retryKey = "None"
    /\ error = "none"
    /\ cause = "none"
    /\ errMsg = <<>>

Raise(exc, from, msg) ==
    /\ pc' = "failed"
    /\ error' = exc
    /\ cause' = from
    /\ errMsg' = msg

NoRaise == UNCHANGED <<error, cause, errMsg>>

\* A failure of api_get_metadata leaves the version check unwrapped.
MetadataFailureUnwrapped(status) == <<status, "none">>

\* 'except CommunicationError as exce: raise NoResponseFetchVersionError
\* from exce': <<exception raised, its cause>> when api_get_metadata fails.
MetadataFailure(status) ==
    IF status = "CommunicationError"
    THEN <<"NoResponseFetchVersionError", "CommunicationError">>
    ELSE <<status, "none">>

\* A version outside the supported range is let through.
ValidateCompatibleApiVersionLenient(resp, next, hub) ==
    /\ requests' = Append(requests, Request("/api/", {}, resp))
    /\ IF resp[1] = "AccessingJupyterHubError" /\ hub # "failed"
       THEN pc' = hub /\ NoRaise
       ELSE IF resp[1] # "ok"
       THEN Raise(MetadataFailure(resp[1])[1], MetadataFailure(resp[1])[2], <<>>)
       ELSE pc' = next /\ NoRaise

(***************************************************************************)
(* Client._validate_compatible_api_version.  resp is what api_get_metadata *)
(* comes back with; next is where __init__ continues when the check        *)
(* passes, hub where it continues on AccessingJupyterHubError ("failed"    *)
(* when the error is not caught).                                          *)
(***************************************************************************)
ValidateCompatibleApiVersion(resp, next, hub) ==
    /\ requests' = Append(requests, Request("/api/", {}, resp))
    /\ IF resp[1] = "AccessingJupyterHubError" /\ hub # "failed"
       THEN pc' = hub /\ NoRaise
       ELSE IF resp[1] # "ok"
       THEN Raise(MetadataFailure(resp[1])[1], MetadataFailure(resp[1])[2], <<>>)
       ELSE IF ~InSimpleSpec(resp[2], SUPPORTED_VERSION_RANGE)
       THEN Raise("UnsupportedSemanticVersionError", "none",
                  <<resp[2], SUPPORTED_VERSION_RANGE>>)
       ELSE pc' = next /\ NoRaise

\* __init__, the first version check.
Validate ==
    /\ pc = "validate"
    /\ \E resp \in MetaResponses :
           ValidateCompatibleApiVersion(resp, "authenticate", "authorize")
    /\ UNCHANGED <<interactive, service, getKeyCalls, promptCalls, written,
                   warnings, authorizeCalls, apiKey, retryKey, opVars,
                   libVars, projectVars>>

\* The client authorizes but keeps the service it was built with.
AuthorizeKeepsService ==
    /\ pc = "authorize"
    /\ authorizeCalls' = authorizeCalls + 1
    /\ service' = service
    /\ pc' = "revalidate"
    /\ UNCHANGED <<interactive, requests, getKeyCalls, promptCalls, written,
                   warnings, apiKey, retryKey, error, cause, errMsg, opVars,
                   libVars, projectVars>>

\* __init__, except AccessingJupyterHubError: authorize, then the URI and
\* the service are replaced by the authorized ones.
Authorize ==
    /\ pc = "authorize"
    /\ authorizeCalls' = authorizeCalls + 1
    /\ service' = "authorized"
    /\ pc' = "revalidate"
    /\ UNCHANGED <<interactive, requests, getKeyCalls, promptCalls, written,
                   warnings, apiKey, retryKey, error, cause, errMsg, opVars,
                   libVars, projectVars>>

\* __init__, the version check repeated against the authorized service.
Revalidate ==
    /\ pc = "revalidate"
    /\ \E resp \in MetaResponses :
           ValidateCompatibleApiVersion(resp, "authenticate", "failed")
    /\ UNCHANGED <<interactive, service, getKeyCalls, promptCalls, written,
                   warnings, authorizeCalls, apiKey, retryKey, opVars,
                   libVars, projectVars>>

(***************************************************************************)
(* Client._authenticate_against_api(interactive, api_key).  explicit is    *)
(* the api_key argument ("None" when omitted), stored what get_key         *)
(* returns if it is consulted, resp what api_login comes back with.        *)
(***************************************************************************)
\* The stored key wins over the one passed in.
AuthKeyStoredFirst(explicit, stored) ==
    IF Truthy(stored) THEN stored ELSE explicit

\* The key after 'if not api_key: api_key = get_key(...)'.
AuthKey(explicit, stored) == IF Truthy(explicit) THEN explicit ELSE stored

\* The key is saved whether or not the client is interactive.
SavesKeyNonInteractive(key, isInteractive) == Truthy(key)

\* Only None counts as no key: the empty key is saved as well.
SavesKeyUnlessNone(key, isInteractive) == key # "None" /\ isInteractive

\* 'if api_key and interactive': the key is saved after a successful login.
SavesKey(key, isInteractive) == Truthy(key) /\ isInteractive

\* The key is saved before the login is answered.
AuthenticateAgainstApiSavingFirst(explicit, stored, resp) ==
    LET key == AuthKey(explicit, stored) IN
    /\ getKeyCalls' = IF Truthy(explicit)
                      THEN getKeyCalls
                      ELSE Append(getKeyCalls, stored)
    /\ requests' = Append(requests, Request("/api/login", LoginBody(key), resp))
    /\ written' = IF SavesKey(key, interactive)
                  THEN Append(written, key)
                  ELSE written

AuthenticateAgainstApi(explicit, stored, resp) ==
    LET key == AuthKey(explicit, stored) IN
    /\ getKeyCalls' = IF Truthy(explicit)
                      THEN getKeyCalls
                      ELSE Append(getKeyCalls, stored)
    /\ requests' = Append(requests, Request("/api/login", LoginBody(key), resp))
    /\ written' = IF resp[1] = "ok" /\ SavesKey(key, interactive)
                  THEN Append(written, key)
                  ELSE written

\* An anonymous login goes unreported.
NoAnonymousWarning(key) == <<>>

\* The warnings _authenticate_against_api logs for the key it logs in with.
AnonymousWarning(key) == IF Truthy(key) THEN <<>> ELSE <<"anonymous">>

\* __init__, 'try: api_key = self._authenticate_against_api(interactive)'.
Authenticate ==
    /\ pc = "authenticate"
    /\ \E stored \in KeyVals, resp \in LoginResponses :
           /\ AuthenticateAgainstApi("None", stored, resp)
           /\ apiKey' = IF resp[1] = "ok"
                        THEN AuthKey("None", stored)
                        ELSE apiKey
           /\ warnings' = warnings \o AnonymousWarning(AuthKey("None", stored))
           /\ IF resp[1] = "ok"
              THEN pc' = "get_me" /\ NoRaise
              ELSE IF resp[1] = "HTTPError" /\ interactive
              THEN pc' = "retry" /\ NoRaise
              ELSE Raise(resp[1], "none", <<>>)
    /\ UNCHANGED <<interactive, service, promptCalls, authorizeCalls, retryKey,
                   opVars, libVars, projectVars>>

\* The prompt is repeated for as long as the login is rejected.
RetryUntilAccepted ==
    /\ pc = "retry"
    /\ Len(promptCalls) < 2
    /\ \E prompted \in KeyVals, stored \in KeyVals, resp \in LoginResponses :
           /\ promptCalls' = Append(promptCalls, prompted)
           /\ AuthenticateAgainstApi(prompted, stored, resp)
           /\ apiKey' = IF resp[1] = "ok"
                        THEN AuthKey(prompted, stored)
                        ELSE prompted
           /\ warnings' = warnings \o <<"invalid_key">>
                              \o AnonymousWarning(AuthKey(prompted, stored))
           /\ IF resp[1] = "ok"
              THEN pc' = "get_me" /\ NoRaise
              ELSE IF resp[1] = "HTTPError"
              THEN pc' = "retry" /\ NoRaise
              ELSE Raise(resp[1], "none", <<>>)
    /\ UNCHANGED <<interactive, service, authorizeCalls, retryKey, opVars,
                   libVars, projectVars>>

\* __init__, 'except HTTPError: if interactive:' prompt and log in again.
Retry ==
    /\ pc = "retry"
    /\ \E prompted \in KeyVals, stored \in KeyVals, resp \in LoginResponses :
           /\ promptCalls' = Append(promptCalls, prompted)
           /\ AuthenticateAgainstApi(prompted, stored, resp)
           /\ apiKey' = IF resp[1] = "ok"
                        THEN AuthKey(prompted, stored)
                        ELSE prompted
           /\ warnings' = warnings \o <<"invalid_key">>
                              \o AnonymousWarning(AuthKey(prompted, stored))
           /\ IF resp[1] = "ok"
              THEN pc' = "get_me" /\ NoRaise
              ELSE Raise(resp[1], "none", <<>>)
    /\ UNCHANGED <<interactive, service, authorizeCalls, retryKey, opVars,
                   libVars, projectVars>>

\* Whatever users/me answers is taken for a license.
LicenseNeverMissing(resp) == FALSE

\* 'license' not in resp['data'].
LicenseMissing(resp) == resp[1] = "nolicense"

\* __init__, add_login_retry_with, users.get_me and the license check.
GetMe ==
    /\ pc = "get_me"
    /\ retryKey' = apiKey
    /\ \E resp \in MeResponses :
           /\ requests' = Append(requests, Request("/api/users/me", {}, resp))
           /\ IF resp[1] = "HTTPError"
              THEN Raise(resp[1], "none", <<>>)
              ELSE IF LicenseMissing(resp)
              THEN Raise("NoAssignedLicenseError", "none", <<>>)
              ELSE pc' = "done" /\ NoRaise
    /\ UNCHANGED <<interactive, service, getKeyCalls, promptCalls, written,
                   warnings, authorizeCalls, apiKey, opVars, libVars,
                   projectVars>>

Next ==
    \/ Validate
    \/ Authorize
    \/ Revalidate
    \/ Authenticate
    \/ Retry
    \/ GetMe

Spec == Init /\ [][Next]_vars

(***************************************************************************)
(* The asynchronous job behind an Operation and the wait/poll loop.        *)
(***************************************************************************)
InitOp ==
    /\ LibIdle
    /\ ProjectIdle
    /\ pc = "done"
    /\ interactive = FALSE
    /\ requests = <<>>
    /\ getKeyCalls = <<>>
    /\ promptCalls = <<>>
    /\ written = <<>>
    /\ warnings = <<>>
    /\ authorizeCalls = 0
    /\ service = "initial"
    /\ apiKey = "None"
    /\ retryKey = "None"
    /\ error = "none"
    /\ cause = "none"
    /\ errMsg = <<>>
    /\ jobState \in {"NOT_STARTED", "RUNNING"}
    /\ opPc = "idle"
    /\ timeout \in 0..MaxTimeout
    /\ elapsed = 0
    /\ observed = "none"
    /\ polls = <<>>
    /\ statusCalls = 0
    /\ opError = "none"
    /\ opResult = "none"

\* The status argument of wait, at its default.
WaitStatus == "DONE"

\* Server: the job is picked up.
JobStart ==
    /\ jobState = "NOT_STARTED"
    /\ jobState' = "RUNNING"
    /\ UNCHANGED <<clientVars, projectVars, libVars, opPc, timeout, elapsed,
                   observed, polls,
                   statusCalls, opError, opResult>>

\* Server: the running job ends, successfully or not.
JobFinish ==
    /\ jobState = "RUNNING"
    /\ jobState' \in {"DONE", "FAILED"}
    /\ UNCHANGED <<clientVars, projectVars, libVars, opPc, timeout, elapsed,
                   observed, polls,
                   statusCalls, opError, opResult>>

\* A cancel request is honoured whatever state the job is in.
CancelAnyJob ==
    /\ jobState # "CANCELLED"
    /\ jobState' = "CANCELLED"
    /\ UNCHANGED <<clientVars, projectVars, libVars, opPc, timeout, elapsed,
                   observed, polls,
                   statusCalls, opError, opResult>>

\* The client takes the job for cancelled as soon as it has asked for it.
CancelObservedLocally ==
    /\ jobState \notin TerminalStates
    /\ jobState' = "CANCELLED"
    /\ observed' = "CANCELLED"
    /\ UNCHANGED <<clientVars, projectVars, libVars, opPc, timeout, elapsed,
                   polls,
                   statusCalls, opError, opResult>>

\* Operation.cancel(): the request moves a job that is not yet terminal to
\* CANCELLED on the server; the client learns nothing from it.
Cancel ==
    /\ jobState \notin TerminalStates
    /\ jobState' = "CANCELLED"
    /\ UNCHANGED <<clientVars, projectVars, libVars, opPc, timeout, elapsed,
                   observed, polls,
                   statusCalls, opError, opResult>>

\* Operation.status(): one poll, the server's answer is what is observed.
Status ==
    /\ opPc # "polling"
    /\ statusCalls < MaxStatusCalls
    /\ statusCalls' = statusCalls + 1
    /\ polls' = Append(polls, jobState)
    /\ observed' = jobState
    /\ UNCHANGED <<clientVars, projectVars, libVars, jobState, opPc, timeout,
                   elapsed, opError,
                   opResult>>

\* Operation.wait(timeout, status=DONE) is entered.
WaitBegin ==
    /\ opPc = "idle"
    /\ opPc' = "polling"
    /\ elapsed' = 0
    /\ UNCHANGED <<clientVars, projectVars, libVars, jobState, timeout,
                   observed, polls,
                   statusCalls, opError, opResult>>

\* A missing timeout is taken for a deadline of zero.
TimedOutWithoutTimeout(t, now) == now > t

\* wait compares the clock with the timeout between two polls.
TimedOut(t, now) == t # 0 /\ now > t

\* One iteration of the loop of wait: poll, decide, sleep.
WaitPoll ==
    /\ opPc = "polling"
    /\ polls' = Append(polls, jobState)
    /\ observed' = jobState
    /\ IF jobState = WaitStatus
       THEN /\ opPc' = "returned"
            /\ opResult' = "refetched_entity"
            /\ UNCHANGED <<opError, elapsed>>
       ELSE IF jobState \in TerminalStates
       THEN /\ opPc' = "raised"
            /\ opError' = "OperationFailureError"
            /\ UNCHANGED <<opResult, elapsed>>
       ELSE IF TimedOut(timeout, elapsed)
       THEN /\ opPc' = "raised"
            /\ opError' = "OperationTimeOutError"
            /\ UNCHANGED <<opResult, elapsed>>
       ELSE /\ elapsed < MaxElapsed
            /\ elapsed' = elapsed + 1
            /\ UNCHANGED <<opPc, opError, opResult>>
    /\ UNCHANGED <<clientVars, projectVars, libVars, jobState, timeout,
                   statusCalls>>

NextOp ==
    \/ JobStart
    \/ JobFinish
    \/ Cancel
    \/ Status
    \/ WaitBegin
    \/ WaitPoll

SpecOp == InitOp /\ [][NextOp]_vars

(***************************************************************************)
(* Entity and client methods.  Each action is one call: libCall holds the  *)
(* method and its arguments, libRet what it returned or raised, libSal the *)
(* service calls it issued.                                                *)
(***************************************************************************)
\* The client has been constructed.
ClientBuilt ==
    /\ pc = "done"
    /\ interactive = FALSE
    /\ requests = <<>>
    /\ getKeyCalls = <<>>
    /\ promptCalls = <<>>
    /\ written = <<>>
    /\ warnings = <<>>
    /\ authorizeCalls = 0
    /\ service = "initial"
    /\ apiKey = "None"
    /\ retryKey = "None"
    /\ error = "none"
    /\ cause = "none"
    /\ errMsg = <<>>

InitLib == ClientBuilt /\ OpIdle /\ LibIdle /\ ProjectIdle

(***************************************************************************)
(* Option bags (options.py).  A dictionary maps every option name to its   *)
(* value, Absent for a name it does not hold; a bag holds a reference into *)
(* the heap of dictionaries, as ExecutionOptions holds self._values.       *)
(***************************************************************************)
OptionNames == {"ncp", "rtol"}
OptionValues == {1, 2}
Absent == 0
Dicts == [OptionNames -> OptionValues \cup {Absent}]

\* The four variants, by the 'name' property of each class.
Variants == {"compiler", "runtime", "solver", "simulation"}

Bag(variant, ref) ==
    [variant |-> variant, values |-> ref, workspace |-> "ws",
     customFunction |-> "dynamic"]

\* A value already held is kept, an override only adds names.
OverlayKeepingHeld(dict, modified) ==
    [n \in OptionNames |-> IF dict[n] # Absent THEN dict[n] ELSE modified[n]]

\* 'for name, value in modified.items(): opts[name] = value'.
Overlay(dict, modified) ==
    [n \in OptionNames |-> IF modified[n] # Absent THEN modified[n] ELSE dict[n]]

\* 'opts = options': no copy is taken.
AliasedOptions(ref) == ref

\* 'opts = deepcopy(options)': the reference of the fresh dictionary.
CopiedOptions(ref) == Len(heap) + 1

\* _set_options(options, **modified): the heap afterwards; the dictionary
\* returned is the one at CopiedOptions(ref).
SetOptions(ref, modified) ==
    [Append(heap, heap[ref]) EXCEPT
        ![CopiedOptions(ref)] = Overlay(heap[ref], modified)]

\* ExecutionOptions.__init__ through a variant's constructor.
NewBag ==
    /\ libCall = <<"none">>
    /\ \E variant \in Variants, values \in Dicts :
           /\ heap' = Append(heap, values)
           /\ libCall' = <<"new_bag", variant, values>>
           /\ libRet' = <<"bag", Bag(variant, Len(heap) + 1)>>
    /\ UNCHANGED <<clientVars, projectVars, opVars, libSal>>

\* ExecutionOptions.with_values(**modified) on the bag returned last.
WithValues ==
    /\ libRet[1] = "bag"
    /\ Len(heap) < MaxDicts
    /\ \E modified \in Dicts :
           LET o == libRet[2] IN
           /\ heap' = SetOptions(o.values, modified)
           /\ libCall' = <<"with_values", o, heap[o.values], modified>>
           /\ libRet' = <<"bag", Bag(o.variant, CopiedOptions(o.values))>>
    /\ UNCHANGED <<clientVars, projectVars, opVars, libSal>>

\* The other namespace's defaults are taken.
DefaultsOfCompiler(resp, variant) ==
    IF variant = "compiler" THEN resp["runtime"] ELSE resp["compiler"]

\* 'custom_function_default_options_get(...)[self.name]'.
DefaultsOf(resp, variant) == resp[variant]

\* What custom_function_default_options_get answers: own holds the defaults
\* of one namespace, others those of the three other namespaces.
DefaultOptionsResponse(namespace, own, others) ==
    [v \in Variants |-> IF v = namespace THEN own ELSE others]

\* ExecutionOptions.with_defaults() on the bag returned last.
WithDefaults ==
    /\ libRet[1] = "bag"
    /\ Len(heap) < MaxDicts
    /\ \E own \in Dicts, others \in Dicts :
           LET o == libRet[2]
               resp == DefaultOptionsResponse(o.variant, own, others)
           IN  /\ heap' = SetOptions(o.values, DefaultsOf(resp, o.variant))
               /\ libCall' = <<"with_defaults", o, heap[o.values], resp>>
               /\ libRet' = <<"bag", Bag(o.variant, CopiedOptions(o.values))>>
               /\ libSal' = Append(libSal,
                      <<"custom_function_default_options_get",
                        o.workspace, o.customFunction>>)
    /\ UNCHANGED <<clientVars, projectVars, opVars>>

NextOptions ==
    \/ NewBag
    \/ WithValues
    \/ WithDefaults

SpecOptions == InitLib /\ [][NextOptions]_vars

(***************************************************************************)
(* Projects (entities/project.py) and the list operations of the client.   *)
(***************************************************************************)
\* The sequences over S of length at most n.
SeqsUpTo(S, n) == UNION {[1..k -> S] : k \in 0..n}

ProjectIds == {"p1", "p2"}
WorkspaceIds == {"w1", "w2"}
DefinitionNames == {"A", "B"}

\* The 'vcsUri' of an item of the projects response: "" when the item has
\* none or an empty one.
ItemVcsUris == {"", "git+https://repo"}

\* The items of the response of projects_get.
ProjectItems ==
    [id : ProjectIds, definition : [name : DefinitionNames],
     projectType : {"LOCAL"}, vcsUri : ItemVcsUris]

\* The items of the response of workspaces_get.
WorkspaceItems == [id : WorkspaceIds, definition : [name : DefinitionNames]]

\* ProjectDefinition.from_dict(data): the fields of data['definition'].
ProjectDefinitionFromDict(item) ==
    [name |-> item.definition.name, format |-> "1.0"]

\* _workspace_def_from_dict(data).
WorkspaceDefinitionFromDict(item) == [name |-> item.definition.name]

\* 'VcsUri.from_dict(item["vcsUri"]) if item.get("vcsUri") else None'.
VcsUriOfItem(item) ==
    IF item.vcsUri = "" THEN <<"None">> ELSE <<"VcsUri", item.vcsUri>>

\* Project(...): ref is the identity of the object built.
Project(ref, id, definition, projectType, vcsUri, sal) ==
    [kind |-> "Project", ref |-> ref, id |-> id, definition |-> definition,
     projectType |-> projectType, vcsUri |-> vcsUri, sal |-> sal]

\* Only the items under version control are kept.
VersionedProjectsFromItems(items) ==
    LET kept == SelectSeq(items, LAMBDA item : item.vcsUri # "")
    IN  [i \in 1..Len(kept) |->
            Project(i, kept[i].id, ProjectDefinitionFromDict(kept[i]),
                    kept[i].projectType, VcsUriOfItem(kept[i]), "sal.project")]

\* The list comprehension of get_projects.
ProjectsFromItems(items) ==
    [i \in 1..Len(items) |->
        Project(i, items[i].id, ProjectDefinitionFromDict(items[i]),
                items[i].projectType, VcsUriOfItem(items[i]), "sal.project")]

\* The list comprehension of get_workspaces.
WorkspacesFromItems(items) ==
    [i \in 1..Len(items) |->
        [kind |-> "Workspace", ref |-> i, id |-> items[i].id,
         definition |-> WorkspaceDefinitionFromDict(items[i])]]

\* Client.get_projects().
GetProjects ==
    /\ libCall = <<"none">>
    /\ \E items \in SeqsUpTo(ProjectItems, MaxItems) :
           /\ libCall' = <<"get_projects", items>>
           /\ libRet' = <<"list", ProjectsFromItems(items)>>
           /\ libSal' = <<<<"projects_get">>>>
    /\ UNCHANGED <<clientVars, projectVars, opVars, heap>>

\* Client.get_workspaces().
GetWorkspaces ==
    /\ libCall = <<"none">>
    /\ \E items \in SeqsUpTo(WorkspaceItems, MaxItems) :
           /\ libCall' = <<"get_workspaces", items>>
           /\ libRet' = <<"list", WorkspacesFromItems(items)>>
           /\ libSal' = <<<<"workspaces_get">>>>
    /\ UNCHANGED <<clientVars, projectVars, opVars, heap>>

\* The objects a project is compared with: Project instances and instances
\* of another class, each with its identity ref and its service handle.
Objects ==
    [kind : {"Project", "Workspace"}, ref : {1, 2}, id : ProjectIds,
     definition : [name : DefinitionNames, format : {"1.0"}],
     projectType : {"LOCAL"}, vcsUri : {<<"None">>, <<"VcsUri", "git+https://repo">>},
     sal : {"sal.project", "sal.other"}]

\* Every attribute is compared, the identity and the service handle too.
ProjectSame(self, obj) == obj = self

\* Project.__eq__(self, obj).
ProjectEq(self, obj) ==
    /\ obj.kind = "Project"
    /\ obj.id = self.id
    /\ obj.definition = self.definition

\* a == b for a Project a: b is a itself or another object.
Equals ==
    /\ libCall = <<"none">>
    /\ \E a \in Objects, b \in Objects :
           /\ a.kind = "Project" /\ a.ref = 1
           /\ b.ref = a.ref => b = a
           /\ libCall' = <<"__eq__", a, b>>
           /\ libRet' = <<"bool", ProjectEq(a, b)>>
    /\ UNCHANGED <<clientVars, projectVars, opVars, libSal, heap>>

\* Paths are sequences of characters.  The paths given to upload.
LibraryPaths ==
    { <<"A", ".", "m", "o">>,
      <<"B", ".", "z", "i", "p">>,
      <<"C", ".", "m", "o", "l">>,
      <<"C", ".", "M", "O", "L">>,
      <<"D", ".", "M", "o">>,
      <<"E", ".", "Z", "I", "P">>,
      <<"F", ".", "t", "x", "t">>,
      <<"G">>,
      <<"a", ".", "b", "/", "H">>,
      <<"I", ".", "v", ".", "m", "o">>,
      <<"m", "o", "l", "/", "J", ".", "m", "o">>,
      <<".", "m", "o", "l">>,
      <<"K", ".">> }

\* The last position of character c in seq, 0 when it has none.
LastIndexOf(seq, c) ==
    LET at == {i \in 1..Len(seq) : seq[i] = c}
    IN  IF at = {} THEN 0 ELSE CHOOSE i \in at : \A j \in at : j <= i

\* Path(path).name: the final component.
PathName(path) == SubSeq(path, LastIndexOf(path, "/") + 1, Len(path))

\* Path(path).suffix: the name from its last dot on, empty when the dot
\* starts or ends the name or there is none.
PathSuffix(path) ==
    LET name == PathName(path)
        i == LastIndexOf(name, ".")
    IN  IF 1 < i /\ i < Len(name) THEN SubSeq(name, i, Len(name)) ELSE <<>>

\* str.lower() on the characters paths are made of.
LowerChar(c) ==
    CASE c = "M" -> "m" [] c = "O" -> "o" [] c = "L" -> "l"
      [] c = "Z" -> "z" [] c = "I" -> "i" [] c = "P" -> "p"
      [] c = "A" -> "a" [] c = "B" -> "b" [] c = "C" -> "c"
      [] c = "D" -> "d" [] c = "E" -> "e" [] c = "F" -> "f"
      [] c = "G" -> "g" [] c = "H" -> "h" [] c = "J" -> "j"
      [] c = "K" -> "k" [] OTHER -> c
Lower(str) == [i \in 1..Len(str) |-> LowerChar(str[i])]

\* The condition under which upload_modelica_library raises ValueError.
RejectedLibrary(path) == Lower(PathSuffix(path)) = <<".", "m", "o", "l">>

\* Project.upload_content(path, content_type): the request issued.
UploadContent(project, path, contentType) ==
    <<"project_content_upload", path, project, contentType>>

\* Project.upload_modelica_library(path_to_lib).
UploadModelicaLibrary ==
    /\ libCall = <<"none">>
    /\ \E project \in ProjectIds, path \in LibraryPaths :
           /\ libCall' = <<"upload_modelica_library", project, path>>
           /\ IF RejectedLibrary(path)
              THEN /\ libRet' = <<"ValueError">>
                   /\ libSal' = libSal
              ELSE /\ libRet' = <<"ProjectContent", project>>
                   /\ libSal' =
                          Append(libSal, UploadContent(project, path, "MODELICA"))
    /\ UNCHANGED <<clientVars, projectVars, opVars, heap>>

NextProject ==
    \/ GetProjects
    \/ GetWorkspaces
    \/ Equals
    \/ UploadModelicaLibrary

SpecProject == InitLib /\ [][NextProject]_vars

(***************************************************************************)
(* Reads of a project while the server changes it (entities/project.py).   *)
(***************************************************************************)
\* A Project built from an earlier response, the server holding any project.
InitRefresh ==
    /\ ClientBuilt
    /\ OpIdle
    /\ LibIdle
    /\ serverProject \in ServerProjects
    /\ projectDefinition \in {DefinitionFromProject(d) : d \in ServerProjects}

\* Server: the project is renamed or its content changes.
ServerChange ==
    /\ \E d \in ServerProjects : d # serverProject /\ serverProject' = d
    /\ UNCHANGED <<clientVars, opVars, libVars, projectDefinition>>

\* The definition held is used as it is.
HeldDefinition == projectDefinition

\* Project._refresh(): ProjectDefinition.from_dict(project_get(id)).
RefreshedDefinition == DefinitionFromProject(serverProject)

\* The content types get_contents filters by, "None" for no filter.
ContentTypeFilters == {"None", "MODELICA", "VIEWS", "GENERIC"}

\* Project._get_project_content(content).
ProjectContent(content) == [content |-> content, project_id |-> serverProject.id]

\* The list get_contents returns from the contents of a definition.
ContentsOf(definition, filter) ==
    LET kept == IF filter = "None"
                THEN definition.content
                ELSE SelectSeq(definition.content,
                               LAMBDA c : c.content_type = filter)
    IN  [i \in 1..Len(kept) |-> ProjectContent(kept[i])]

\* The property Project.definition is read.
ReadDefinition ==
    /\ libCall' = <<"definition", "None">>
    /\ libSal' = <<<<"project_get", serverProject.id>>>>
    /\ projectDefinition' = RefreshedDefinition
    /\ libRet' = <<"definition", RefreshedDefinition>>
    /\ UNCHANGED <<clientVars, opVars, heap, serverProject>>

\* Project.get_contents(content_type_filter).
GetContents ==
    /\ \E filter \in ContentTypeFilters :
           /\ libCall' = <<"get_contents", filter>>
           /\ libRet' = <<"contents", ContentsOf(RefreshedDefinition, filter)>>
    /\ libSal' = <<<<"project_get", serverProject.id>>>>
    /\ projectDefinition' = RefreshedDefinition
    /\ UNCHANGED <<clientVars, opVars, heap, serverProject>>

NextRefresh ==
    \/ ServerChange
    \/ ReadDefinition
    \/ GetContents

SpecRefresh == InitRefresh /\ [][NextRefresh]_vars

(***************************************************************************)
(* Project matchings (client.py).                                          *)
(***************************************************************************)
ReferenceIds == {"r1", "r2"}

\* The references of shared_definition.projects + dependencies: a
\* VcsReference carries a vcsUri, another kind of reference carries "".
DefinitionEntries ==
    {e \in [id : ReferenceIds, isVcs : BOOLEAN, vcsUri : {"", "u1", "u2"}] :
        e.isVcs <=> e.vcsUri # ""}

\* The entries of the 'vcs' list of the matchings response.
MatchingEntries ==
    [entryId : ReferenceIds,
     projects : {<<"p1">>, <<"p2", "p1">>, <<"p3">>}]

\* The responses of projects_get while the matchings are built.
ExistingProjectItems ==
    LET item(id, uri) ==
            [id |-> id, definition |-> [name |-> "A"],
             projectType |-> "LOCAL", vcsUri |-> uri]
    IN  { <<>>,
          <<item("p1", "git+https://repo")>>,
          <<item("p1", "git+https://repo"), item("p2", "")>> }

\* _get_vcs_uri_from_reference_id(shared_definition, reference_id):
\* "ValueError" when no VcsReference of the definition has the id.
GetVcsUriFromReferenceId(references, referenceId) ==
    LET hits == SelectSeq(references,
                          LAMBDA e : e.isVcs /\ e.id = referenceId)
    IN  IF hits = <<>> THEN "ValueError" ELSE hits[1].vcsUri

\* One candidate is selected.
GetFirstVersionedProjectFromIds(items, ids) ==
    LET found == SelectSeq(ProjectsFromItems(items),
                           LAMBDA project : \E k \in 1..Len(ids) : project.id = ids[k])
    IN  IF found = <<>> THEN <<>> ELSE <<found[1]>>

\* _get_versioned_projects_from_ids(vcs_project_ids).
GetVersionedProjectsFromIds(items, ids) ==
    SelectSeq(ProjectsFromItems(items),
              LAMBDA project : \E k \in 1..Len(ids) : project.id = ids[k])

\* ProjectMatching(entry["entryId"], vcs_uri, projects) for one entry.
ProjectMatching(references, items, entry) ==
    [entry_id |-> entry.entryId,
     vcs_uri |-> GetVcsUriFromReferenceId(references, entry.entryId),
     projects |-> GetVersionedProjectsFromIds(items, entry.projects)]

\* The number of entries handled before one raises ValueError.
EntriesHandled(references, matchings) ==
    LET bad == {i \in 1..Len(matchings) :
                   GetVcsUriFromReferenceId(references, matchings[i].entryId)
                       = "ValueError"}
    IN  IF bad = {} THEN Len(matchings)
        ELSE (CHOOSE i \in bad : \A j \in bad : i <= j) - 1

\* Client.get_project_matchings(shared_definition).
GetProjectMatchings ==
    /\ libCall = <<"none">>
    /\ \E references \in SeqsUpTo(DefinitionEntries, MaxEntries),
          matchings \in SeqsUpTo(MatchingEntries, MaxEntries),
          items \in ExistingProjectItems :
           LET handled == EntriesHandled(references, matchings) IN
           /\ libCall' = <<"get_project_matchings", references, matchings, items>>
           /\ libSal' = <<<<"get_project_matchings">>>>
                            \o [i \in 1..handled |-> <<"projects_get">>]
           /\ libRet' =
                  IF handled < Len(matchings)
                  THEN <<"ValueError", matchings[handled + 1].entryId>>
                  ELSE <<"ProjectMatchings",
                         [i \in 1..Len(matchings) |->
                             ProjectMatching(references, items, matchings[i])]>>
    /\ UNCHANGED <<clientVars, projectVars, opVars, heap>>

NextMatchings == GetProjectMatchings

SpecMatchings == InitLib /\ [][NextMatchings]_vars

(***************************************************************************)
(* Experiments: execute and the result accessors.  jobState is the status  *)
(* of the experiment's run on the server.                                  *)
(***************************************************************************)
CaseIds == {"case_1", "case_2", "case_3"}

\* Case entities: the id and whether the case was changed locally.
Cases == [id : CaseIds, changed : BOOLEAN]

\* The with_cases argument: None by default, or a list of cases.
WithCases ==
    {<<"None">>} \cup {<<"cases", cs>> : cs \in SeqsUpTo(Cases, MaxCases)}

\* Every case is pushed, whatever sync_case_changes says.
ExecuteCasePutsAlways(withCases, sync) ==
    IF withCases[1] = "cases"
    THEN [i \in 1..Len(withCases[2]) |->
             <<"case_put", "ws", "exp", withCases[2][i].id>>]
    ELSE <<>>

\* The case_put requests of execute: one per case when the cases are synced.
ExecuteCasePuts(withCases, sync) ==
    IF sync /\ withCases[1] = "cases"
    THEN [i \in 1..Len(withCases[2]) |->
             <<"case_put", "ws", "exp", withCases[2][i].id>>]
    ELSE <<>>

\* The execute request: it names the ids of the cases given.
ExecuteRequest(withCases) ==
    <<"experiment_execute", "ws", "exp",
      IF withCases[1] = "cases"
      THEN <<"ids", [i \in 1..Len(withCases[2]) |-> withCases[2][i].id]>>
      ELSE <<"None">>>>

\* Experiment.execute(with_cases, sync_case_changes).
Execute ==
    /\ libCall = <<"none">>
    /\ \E withCases \in WithCases, sync \in BOOLEAN :
           /\ libCall' = <<"execute", withCases, sync>>
           /\ libSal' = ExecuteCasePuts(withCases, sync)
                            \o <<ExecuteRequest(withCases)>>
           /\ libRet' = <<"ExperimentOperation">>
    /\ UNCHANGED <<clientVars, projectVars, opVars, heap>>

\* Results are handed out for every terminal status.
ResultAccessWhenTerminal(status) ==
    IF status \in TerminalStates THEN "results" ELSE "OperationNotCompleteError"

\* What a result accessor does for the status of the run.
ResultAccess(status) ==
    IF status = "DONE" THEN "results"
    ELSE IF status \in TerminalStates THEN "OperationFailureError"
    ELSE "OperationNotCompleteError"

\* Experiment.get_variables().
GetVariables ==
    /\ libCall[1] \in {"execute", "get_variables", "get_trajectories"}
    /\ libCall' = <<"get_variables", jobState>>
    /\ libRet' = <<ResultAccess(jobState)>>
    /\ UNCHANGED <<clientVars, projectVars, opVars, libSal, heap>>

\* Experiment.get_trajectories(variables), variables a list of known names.
GetTrajectories ==
    /\ libCall[1] \in {"execute", "get_variables", "get_trajectories"}
    /\ libCall' = <<"get_trajectories", jobState>>
    /\ libRet' = <<ResultAccess(jobState)>>
    /\ UNCHANGED <<clientVars, projectVars, opVars, libSal, heap>>

\* Server: the run asked for by execute is picked up.
RunStart == libCall[1] # "none" /\ JobStart

\* Server: the run ends.
RunFinish == libCall[1] # "none" /\ JobFinish

\* The operation returned by execute is cancelled.
RunCancel == libCall[1] # "none" /\ Cancel

NextExperiment ==
    \/ Execute
    \/ RunStart
    \/ RunFinish
    \/ RunCancel
    \/ GetVariables
    \/ GetTrajectories

SpecExperiment == InitLib /\ [][NextExperiment]_vars

(***************************************************************************)
(* Import from a shared definition (client.py).  jobState is the status of *)
(* the import on the server, opPc where the call of the client stands.     *)
(***************************************************************************)
\* Shared definitions, by name.
SharedDefinitions == DefinitionNames

\* Selection(entry_id, project).
Selections == [entry_id : ReferenceIds, project : [id : ProjectIds]]

\* The selections argument: None by default, or a list of selections.
SelectionArgs ==
    {<<"None">>} \cup {<<"list", sel>> : sel \in SeqsUpTo(Selections, MaxEntries)}

\* Selection.to_dict().
SelectionToDict(selection) ==
    [id |-> selection.entry_id, project |-> [id |-> selection.project.id]]

\* '[selection.to_dict() for selection in selections] if selections else None'.
SelectedMatchings(selections) ==
    IF selections[1] = "None" \/ selections[2] = <<>>
    THEN <<"None">>
    ELSE <<"list", [i \in 1..Len(selections[2]) |->
                       SelectionToDict(selections[2][i])]>>

\* Client.import_from_shared_definition up to the call of operation.wait():
\* the definition is submitted and the wait is entered.
ImportFromSharedDefinition ==
    /\ opPc = "idle"
    /\ libCall = <<"none">>
    /\ \E definition \in SharedDefinitions, selections \in SelectionArgs :
           /\ libCall' = <<"import_from_shared_definition", definition, selections>>
           /\ libSal' = <<<<"import_from_shared_definition",
                            [name |-> definition], SelectedMatchings(selections)>>>>
    /\ opPc' = "polling"
    /\ UNCHANGED <<clientVars, projectVars, libRet, heap, jobState, timeout,
                   elapsed,
                   observed, polls, statusCalls, opError, opResult>>

\* Server: the import is picked up.
ImportStart == opPc # "idle" /\ JobStart

\* Server: the import ends, successfully or not.
ImportFinish == opPc # "idle" /\ JobFinish

\* The call returns what the first poll shows, terminal or not.
ImportWithoutWaiting ==
    /\ opPc = "polling"
    /\ observed' = jobState
    /\ IF jobState = "FAILED"
       THEN /\ opPc' = "raised"
            /\ opError' = "IllegalWorkspaceImport"
            /\ libRet' = <<"IllegalWorkspaceImport">>
            /\ UNCHANGED <<opResult, elapsed>>
       ELSE /\ opPc' = "returned"
            /\ opResult' = "Workspace"
            /\ libRet' = <<"Workspace", libCall[2]>>
            /\ UNCHANGED <<opError, elapsed>>
    /\ UNCHANGED <<clientVars, projectVars, libCall, libSal, heap, jobState,
                   timeout,
                   polls, statusCalls>>

\* One iteration of WorkspaceImportOperation.wait(), called without a
\* timeout: poll; return the workspace when the import is done, raise when
\* it failed, sleep and poll again otherwise.
ImportWait ==
    /\ opPc = "polling"
    /\ observed' = jobState
    /\ IF jobState = "DONE"
       THEN /\ opPc' = "returned"
            /\ opResult' = "Workspace"
            /\ libRet' = <<"Workspace", libCall[2]>>
            /\ UNCHANGED <<opError, elapsed>>
       ELSE IF jobState \in TerminalStates
       THEN /\ opPc' = "raised"
            /\ opError' = "IllegalWorkspaceImport"
            /\ libRet' = <<"IllegalWorkspaceImport">>
            /\ UNCHANGED <<opResult, elapsed>>
       ELSE /\ elapsed < MaxElapsed
            /\ elapsed' = elapsed + 1
            /\ UNCHANGED <<opPc, opError, opResult, libRet>>
    /\ UNCHANGED <<clientVars, projectVars, libCall, libSal, heap, jobState,
                   timeout,
                   polls, statusCalls>>

NextImport ==
    \/ ImportFromSharedDefinition
    \/ ImportStart
    \/ ImportFinish
    \/ ImportWait

SpecImport == InitLib /\ [][NextImport]_vars

(***************************************************************************)
(* Experiment definitions (experiment_definition.py).  A definition holds  *)
(* a reference to its variable_modifiers dictionary in the heap; that      *)
(* dictionary maps every modifier name to its value, NoModifier for a name *)
(* it does not hold.                                                       *)
(***************************************************************************)
ModifierNames == {"J", "k", "x"}
NoModifier == "absent"

\* fmu.settable_parameters().
SettableParameters == {"J", "k"}

\* The values given for a modifier: plain values and a Range operator.
ModifierValues == {"1", "2", "Range"}

\* 'str(value) if isinstance(value, Operator) else value'.
StoredModifier(value) == IF value = "Range" THEN "range(0.1,0.5,3)" ELSE value

\* A dictionary of modifiers with the given entries.
Modifiers(J, k, x) ==
    [n \in ModifierNames |->
        IF n = "J" THEN J ELSE IF n = "k" THEN k ELSE x]

\* The modifiers argument: None, or a dictionary.
ModifierDicts ==
    { <<"None">>,
      <<"dict", Modifiers("1", NoModifier, NoModifier)>>,
      <<"dict", Modifiers("Range", "1", NoModifier)>>,
      <<"dict", Modifiers(NoModifier, "2", NoModifier)>>,
      <<"dict", Modifiers(NoModifier, NoModifier, "1")>> }

\* The keyword arguments.
ModifierKwargs ==
    { Modifiers(NoModifier, NoModifier, NoModifier),
      Modifiers("2", NoModifier, NoModifier),
      Modifiers(NoModifier, "Range", NoModifier),
      Modifiers(NoModifier, NoModifier, "2") }

\* The arguments given as fmu, custom_function and options, by class.
FmuArgs == [class : {"ModelExecutable", "Model"}, successful : BOOLEAN]
CustomFunctionArgs == {"CustomFunction", "str"}
OptionsArgs == {"ExecutionOptions", "dict"}

\* The compilation is looked at before the classes of the arguments.
AssertCompilationFirst(fmu, customFunction, options) ==
    IF ~fmu.successful THEN "OperationFailureError"
    ELSE IF fmu.class # "ModelExecutable" THEN "TypeError"
    ELSE IF customFunction # "CustomFunction" THEN "TypeError"
    ELSE IF options # "ExecutionOptions" THEN "TypeError"
    ELSE "ok"

\* _assert_valid_args followed by _assert_successful_compilation: the
\* exception raised, "ok" if none.
AssertValidDefinition(fmu, customFunction, options) ==
    IF fmu.class # "ModelExecutable" THEN "TypeError"
    ELSE IF customFunction # "CustomFunction" THEN "TypeError"
    ELSE IF options # "ExecutionOptions" THEN "TypeError"
    ELSE IF ~fmu.successful THEN "OperationFailureError"
    ELSE "ok"

\* The attributes __init__ sets; modifiers is the reference of the
\* definition's variable_modifiers.
Definition(fmu, customFunction, options, logLevel, modifiers) ==
    [fmu |-> fmu, custom_function |-> customFunction, options |-> options,
     simulation_log_level |-> logLevel, variable_modifiers |-> modifiers]

NoModifiers == [n \in ModifierNames |-> NoModifier]

\* SimpleExperimentDefinition(fmu, custom_function, options, log_level).
NewDefinition ==
    /\ libCall = <<"none">>
    /\ \E fmu \in FmuArgs, customFunction \in CustomFunctionArgs,
          options \in OptionsArgs, logLevel \in {"WARNING", "DEBUG"} :
           LET raised == AssertValidDefinition(fmu, customFunction, options) IN
           /\ libCall' = <<"new_definition", fmu, customFunction, options, logLevel>>
           /\ IF raised = "ok"
              THEN /\ heap' = Append(heap, NoModifiers)
                   /\ libRet' = <<"definition",
                                  Definition(fmu, customFunction, options,
                                             logLevel, Len(heap) + 1)>>
              ELSE /\ heap' = heap
                   /\ libRet' = <<raised>>
    /\ UNCHANGED <<clientVars, projectVars, opVars, libSal>>

\* The names a modifiers argument and the keyword arguments give.
GivenNames(modifiers, kwargs) ==
    {n \in ModifierNames :
        \/ modifiers[1] = "dict" /\ modifiers[2][n] # NoModifier
        \/ kwargs[n] # NoModifier}

\* _assert_settable_parameters for the dictionary, then for the keywords.
UnsettableGiven(modifiers, kwargs) ==
    GivenNames(modifiers, kwargs) \ SettableParameters

\* The loop over itertools.chain(modifiers.items(), modifiers_kwargs.items())
\* writing into the dictionary dict.
WriteModifiers(dict, modifiers, kwargs) ==
    [n \in ModifierNames |->
        IF kwargs[n] # NoModifier THEN StoredModifier(kwargs[n])
        ELSE IF modifiers[1] = "dict" /\ modifiers[2][n] # NoModifier
        THEN StoredModifier(modifiers[2][n])
        ELSE dict[n]]

\* The modifiers are written into the receiver's own dictionary.
ReceiverModifiers(receiver) == receiver.variable_modifiers

\* 'new = SimpleExperimentDefinition(...)': new.variable_modifiers is the
\* fresh empty dictionary of __init__.
NewModifiers(receiver) == Len(heap) + 1

\* SimpleExperimentDefinition.with_modifiers(modifiers, **modifiers_kwargs)
\* on the definition returned last.
WithModifiers ==
    /\ libRet[1] = "definition"
    /\ Len(heap) < MaxDefinitions
    /\ \E modifiers \in ModifierDicts, kwargs \in ModifierKwargs :
           LET d == libRet[2]
               fresh == Append(heap, NoModifiers)
               target == NewModifiers(d)
           IN  /\ libCall' = <<"with_modifiers", d, heap[d.variable_modifiers],
                               modifiers, kwargs>>
               /\ IF UnsettableGiven(modifiers, kwargs) # {}
                  THEN /\ libRet' = <<"KeyError">>
                       /\ heap' = heap
                  ELSE /\ heap' = [fresh EXCEPT ![target] =
                                      WriteModifiers(fresh[target], modifiers, kwargs)]
                       /\ libRet' = <<"definition",
                                      Definition(d.fmu, d.custom_function, d.options,
                                                 d.simulation_log_level, target)>>
    /\ UNCHANGED <<clientVars, projectVars, opVars, libSal>>

NextDefinition ==
    \/ NewDefinition
    \/ WithModifiers

SpecDefinition == InitLib /\ [][NextDefinition]_vars

(***************************************************************************)
Range(seq) == {seq[i] : i \in 1..Len(seq)}

SecretKeyBody(key) == {<<"secretKey", key>>}

\* v lies in [1.21.3, 4.0.0), written out on the components of v.
InClaimedRange(v) ==
    \/ v[1] \in {2, 3}
    \/ v[1] = 1 /\ v[2] > 21
    \/ v[1] = 1 /\ v[2] = 21 /\ v[3] >= 3

C3_KeyWrittenOnlyOnInteractiveSuccess ==
    LET L == LoginRequests IN
    /\ \A i \in 1..Len(written) :
           /\ interactive
           /\ Truthy(written[i])
           /\ \E j \in 1..Len(L) :
                  L[j][2] = SecretKeyBody(written[i]) /\ L[j][3][1] = "ok"
    /\ (\A j \in 1..Len(L) : L[j][3][1] # "ok") => written = <<>>

\* A key was written after the retried login succeeded.
C3_Witness ==
    /\ Len(written) = 1
    /\ Len(LoginRequests) = 2
    /\ LoginRequests[1][3][1] = "HTTPError"

\* C4: with interactive false and no key from the credential manager the
\* login request is sent with the empty payload, the anonymous warning is
\* logged, nothing is written to the credential file, and construction goes
\* on to users/me once the login is accepted.
C4_AnonymousLoginNonInteractive ==
    LET L == LoginRequests IN
    (~interactive /\ getKeyCalls # <<>> /\ ~Truthy(getKeyCalls[1])) =>
        /\ Len(L) = 1
        /\ L[1][2] = {}
        /\ "anonymous" \in Range(warnings)
        /\ written = <<>>
        /\ L[1][3][1] = "ok" =>
               \/ pc = "get_me"
               \/ Len(MeRequests) = 1 /\ pc \in {"done", "failed"}

\* The client was constructed on an anonymous login.
C4_Witness ==
    /\ ~interactive
    /\ getKeyCalls = <<"None">>
    /\ pc = "done"

C7_UnreachableMetadata ==
    \A i \in 1..Len(requests) :
        (requests[i][1] = "/api/" /\ requests[i][3][1] = "CommunicationError") =>
            /\ pc = "failed"
            /\ error = "NoResponseFetchVersionError"
            /\ cause = "CommunicationError"
            /\ i = Len(requests)
            /\ LoginRequests = <<>>

\* The metadata endpoint was unreachable.
C7_Witness ==
    /\ Len(requests) = 1
    /\ requests[1][3][1] = "CommunicationError"
    /\ error = "NoResponseFetchVersionError"

\* C8: construction succeeds only if the users/me response fetched after a
\* successful login carries a license; a response without one fails the
\* construction with NoAssignedLicenseError although the version check and
\* the login succeeded.
C8_LicenseRequired ==
    LET n == Len(requests) IN
    /\ pc = "done" =>
           /\ n >= 3
           /\ requests[n][1] = "/api/users/me" /\ requests[n][3][1] = "ok"
           /\ requests[n - 1][1] = "/api/login" /\ requests[n - 1][3][1] = "ok"
    /\ \A i \in 1..n :
           (requests[i][1] = "/api/users/me" /\ requests[i][3][1] = "nolicense") =>
               /\ pc = "failed"
               /\ error = "NoAssignedLicenseError"
               /\ i = n
               /\ requests[i - 1][1] = "/api/login" /\ requests[i - 1][3][1] = "ok"
               /\ \E j \in 1..(i - 1) :
                      /\ requests[j][1] = "/api/"
                      /\ requests[j][3][1] = "ok"
                      /\ InClaimedRange(requests[j][3][2])

\* Version check and login passed and the user has no license.
C8_Witness ==
    /\ error = "NoAssignedLicenseError"
    /\ Len(LoginRequests) = 1

\* The place of a request in the order metadata, login, users/me.
RequestRank(r) ==
    IF r[1] = "/api/" THEN 1 ELSE IF r[1] = "/api/login" THEN 2 ELSE 3

\* C21: the requests of a construction come in the order metadata, login,
\* users/me; a login is sent only after a version check that passed, and
\* users/me is requested only after a login that succeeded.
C21_RequestOrder ==
    /\ \A i, j \in 1..Len(requests) :
           i < j => RequestRank(requests[i]) <= RequestRank(requests[j])
    /\ LoginRequests # <<>> =>
           /\ MetaRequests # <<>>
           /\ MetaRequests[Len(MetaRequests)][3][1] = "ok"
           /\ InClaimedRange(MetaRequests[Len(MetaRequests)][3][2])
    /\ MeRequests # <<>> =>
           /\ Len(MeRequests) = 1
           /\ LoginRequests # <<>>
           /\ LoginRequests[Len(LoginRequests)][3][1] = "ok"

C21_Witness ==
    /\ pc = "done"
    /\ Len(requests) = 4
    /\ requests[1][1] = "/api/"
    /\ requests[2][1] = "/api/login" /\ requests[2][3][1] = "HTTPError"
    /\ requests[3][1] = "/api/login" /\ requests[3][3][1] = "ok"
    /\ requests[4][1] = "/api/users/me"

\* C22: when the first version check raises AccessingJupyterHubError the
\* client authorizes once, sends every later request through the authorized
\* service, and repeats the version check before any login; when the
\* repeated check fails the construction fails with no second authorization.
C22_JupyterHubAuthorizedOnce ==
    LET hub == requests # <<>> /\ requests[1][3][1] = "AccessingJupyterHubError"
    IN  /\ authorizeCalls <= 1
        /\ authorizeCalls = 1 <=> (hub /\ pc # "authorize")
        /\ \A i \in 1..Len(requests) :
               requests[i][4] = IF hub /\ i > 1 THEN "authorized" ELSE "initial"
        /\ service = IF authorizeCalls = 1 THEN "authorized" ELSE "initial"
        /\ (hub /\ Len(requests) >= 2) =>
               /\ requests[2][1] = "/api/"
               /\ (requests[2][3][1] # "ok"
                      \/ ~InClaimedRange(requests[2][3][2])) =>
                      /\ pc = "failed"
                      /\ Len(requests) = 2
               /\ requests[2][3][1] = "AccessingJupyterHubError" =>
                      error = "AccessingJupyterHubError"

C22_Witness ==
    /\ authorizeCalls = 1
    /\ pc = "done"
    /\ Len(MetaRequests) = 2
    /\ MetaRequests[1][4] = "initial" /\ MetaRequests[2][4] = "authorized"
    /\ LoginRequests[1][4] = "authorized"

\* C22 (failure of the repeated check): the construction has failed on the
\* second version check after one authorization.
C22_WitnessRepeatedFailure ==
    /\ authorizeCalls = 1
    /\ pc = "failed"
    /\ Len(requests) = 2
    /\ requests[2][3][1] = "AccessingJupyterHubError"

C28_WitnessWritten ==
    /\ pc = "failed"
    /\ error = "NoAssignedLicenseError"
    /\ written # <<>>

(***************************************************************************)
(* ProjectMatching.make_selection_interactive: the candidates are listed    *)
(* under the keys 1..n and one line typed at the prompt picks one of them.  *)
(***************************************************************************)
MaxCandidates == 3

CandidateIds == {"p1", "p2", "p3"}

DigitChars == {"0", "1", "2", "3", "4", "5", "6", "7", "8", "9"}

DigitValue(c) ==
    CASE c = "0" -> 0 [] c = "1" -> 1 [] c = "2" -> 2 [] c = "3" -> 3
      [] c = "4" -> 4 [] c = "5" -> 5 [] c = "6" -> 6 [] c = "7" -> 7
      [] c = "8" -> 8 [] c = "9" -> 9

\* The lines typed at the prompt, as sequences of characters.
TypedLines ==
    {<<"1">>, <<"2">>, <<"3">>, <<"4">>, <<"0">>, <<>>, <<"a">>,
     <<"-", "1">>, <<" ", "2">>, <<"1", ".", "0">>, <<"0", "2">>,
     <<"1", "0">>}

\* str.strip as int() applies it to its argument.
Strip(line) ==
    LET kept == {i \in 1..Len(line) : line[i] # " "} IN
    IF kept = {} THEN <<>>
    ELSE SubSeq(line, CHOOSE i \in kept : \A j \in kept : i <= j,
                      CHOOSE i \in kept : \A j \in kept : i >= j)

RECURSIVE DecimalValue(_)
DecimalValue(digits) ==
    IF digits = <<>> THEN 0
    ELSE 10 * DecimalValue(SubSeq(digits, 1, Len(digits) - 1))
             + DigitValue(digits[Len(digits)])

\* int(line): <<"int", value>>, or <<"ValueError">> for a line that is not
\* an optionally signed run of decimal digits.
IntOf(line) ==
    LET text == Strip(line)
        signed == text # <<>> /\ text[1] \in {"+", "-"}
        digits == IF signed THEN Tail(text) ELSE text
    IN  IF digits = <<>> \/ \E i \in 1..Len(digits) : digits[i] \notin DigitChars
        THEN <<"ValueError">>
        ELSE <<"int", IF signed /\ text[1] = "-"
                      THEN 0 - DecimalValue(digits)
                      ELSE DecimalValue(digits)>>

ChoiceKeyZeroBased(i) == i - 1

\* The key of the i-th listed project (hash_map[i + 1] for enumerate's i,
\* which counts from 0; sequences here count from 1).
ChoiceKey(i) == i

HashMap(projects) ==
    [k \in {ChoiceKey(i) : i \in 1..Len(projects)} |->
        projects[CHOOSE i \in 1..Len(projects) : ChoiceKey(i) = k]]

\* map(str, range(len(hash_map))): the choices the error message names.
AllowedChoices(hash_map) ==
    [i \in 1..Cardinality(DOMAIN hash_map) |-> i - 1]

MakeSelectionInteractive ==
    /\ libCall = <<"none">>
    /\ \E entry_id \in ReferenceIds,
          projects \in SeqsUpTo(CandidateIds, MaxCandidates),
          line \in TypedLines :
           /\ libCall' = <<"make_selection_interactive", entry_id, projects, line>>
           /\ libSal' = [i \in 1..Len(projects) |-> <<"project_get", projects[i]>>]
           /\ libRet' =
                  IF Len(projects) = 1
                  THEN <<"Selection", entry_id, projects[1], 0>>
                  ELSE LET hash_map == HashMap(projects)
                           choice == IntOf(line)
                       IN  IF choice[1] = "int" /\ choice[2] \in DOMAIN hash_map
                           THEN <<"Selection", entry_id, hash_map[choice[2]], 1>>
                           ELSE <<"ValueError", AllowedChoices(hash_map), 1>>
    /\ UNCHANGED <<clientVars, projectVars, opVars, heap>>

NextSelection == MakeSelectionInteractive

SpecSelection == InitLib /\ [][NextSelection]_vars

(***************************************************************************)
(* Properties of the wait/poll loop (SpecOp).                              *)
(***************************************************************************)
FailedStates == {"FAILED", "CANCELLED"}

\* What a step of wait that polls does, given the status the poll observes.
WaitPollOutcome ==
    (opPc = "polling" /\ Len(polls') = Len(polls) + 1) =>
        LET seen == polls'[Len(polls')]
            late == timeout # 0 /\ elapsed > timeout
        IN  /\ opPc' = "returned" <=> seen = "DONE"
            /\ (opPc' = "raised" /\ opError' = "OperationFailureError")
                   <=> seen \in FailedStates
            /\ (opPc' = "raised" /\ opError' = "OperationTimeOutError")
                   <=> (seen \notin TerminalStates /\ late)
            /\ opPc' = "polling" <=> (seen \notin TerminalStates /\ ~late)

\* Where wait stands agrees with what it has returned or raised.
WaitResultConsistent ==
    /\ opPc = "returned" =>
           /\ observed = "DONE"
           /\ opError = "none"
           /\ opResult = "refetched_entity"
           /\ "DONE" \in Range(polls)
    /\ opPc = "raised" =>
           /\ opResult = "none"
           /\ opError \in {"OperationTimeOutError", "OperationFailureError"}
    /\ opPc \in {"idle", "polling"} => opError = "none" /\ opResult = "none"
    /\ opError = "OperationTimeOutError" => timeout # 0 /\ elapsed > timeout
    /\ opError = "OperationFailureError" => Range(polls) \cap FailedStates # {}

C10_TerminalNeverReverts ==
    /\ [](\A i \in 1..Len(polls) : \A j \in i..Len(polls) :
              polls[i] \in TerminalStates => polls[j] = polls[i])
    /\ [][observed' # observed =>
              /\ Len(polls') = Len(polls) + 1
              /\ observed' = polls'[Len(polls')]
              /\ observed' = jobState]_vars

\* The job was polled again after a poll had observed it FAILED.
C10_Witness ==
    /\ Len(polls) >= 3
    /\ polls[2] = "FAILED"

\* A step that cancels the job leaves everything the client holds as it is.
CancelStepIsRemote ==
    (jobState # "CANCELLED" /\ jobState' = "CANCELLED") =>
        /\ jobState \notin TerminalStates
        /\ UNCHANGED <<observed, polls, opPc, opError, opResult>>

\* A poll of wait sent after the cancellation observes it and raises.
PollAfterCancelRaises ==
    (jobState = "CANCELLED" /\ opPc = "polling"
         /\ Len(polls') = Len(polls) + 1) =>
        /\ observed' = "CANCELLED"
        /\ opPc' = "raised"
        /\ opError' = "OperationFailureError"
        /\ opResult' = "none"

\* C11: a cancel request for a job that is not yet terminal changes nothing
\* the client holds, the cancellation is observed by the next poll, and a
\* wait() for DONE that polls after it observes CANCELLED and raises
\* OperationFailureError instead of returning an entity.
C11_CancelObservedAtNextPoll ==
    /\ [][CancelStepIsRemote]_vars
    /\ [][PollAfterCancelRaises]_vars
    /\ [](observed = "CANCELLED" =>
              polls # <<>> /\ polls[Len(polls)] = "CANCELLED")
    /\ []((jobState = "CANCELLED" /\ opPc = "returned") =>
              "DONE" \in Range(polls))

\* The job was cancelled while wait was polling a running job, and the next
\* poll of wait raised.
C11_Witness ==
    /\ jobState = "CANCELLED"
    /\ Len(polls) >= 2
    /\ polls[Len(polls) - 1] = "RUNNING"
    /\ observed = "CANCELLED"
    /\ opPc = "raised"
    /\ opError = "OperationFailureError"


(***************************************************************************)
(* Properties of the option bags (SpecOptions).                            *)
(***************************************************************************)
\* No dictionary alive before a step is changed by it.
DictsKept == \A ref \in 1..Len(heap) : heap'[ref] = heap[ref]

\* C15: with_values returns a new bag of the same variant whose values are
\* the receiver's with each override set; the receiver keeps its values, and
\* the result differs from it whenever an override changes or adds a value.
C15_WithValuesCopies ==
    /\ [][DictsKept]_vars
    /\ [](libCall[1] = "with_values" =>
            LET o == libCall[2]
                before == libCall[3]
                modified == libCall[4]
                r == libRet[2]
            IN  /\ heap[o.values] = before
                /\ r.values # o.values
                /\ r.variant = o.variant
                /\ \A n \in OptionNames :
                       heap[r.values][n] =
                           IF modified[n] # Absent THEN modified[n] ELSE before[n]
                /\ (\E n \in OptionNames :
                        modified[n] # Absent /\ modified[n] # before[n])
                       => heap[r.values] # heap[o.values])

C15_Witness ==
    /\ libCall[1] = "with_values"
    /\ libCall[3]["ncp"] = 1 /\ libCall[4]["ncp"] = 2
    /\ libCall[3]["rtol"] = 1 /\ libCall[4]["rtol"] = Absent
    /\ heap[libRet[2].values] # heap[libCall[2].values]

\* C16: with_defaults returns a bag of the receiver's variant holding the
\* receiver's values overlaid by the server's defaults of that variant's
\* namespace; names the defaults do not mention keep the receiver's values.
C16_WithDefaultsOverlay ==
    libCall[1] = "with_defaults" =>
        LET o == libCall[2]
            before == libCall[3]
            defaults == libCall[4][o.variant]
            r == libRet[2]
        IN  /\ r.variant = o.variant
            /\ heap[o.values] = before
            /\ \A n \in OptionNames :
                   heap[r.values][n] =
                       IF defaults[n] # Absent THEN defaults[n] ELSE before[n]
            /\ libSal # <<>>
            /\ libSal[Len(libSal)] =
                   <<"custom_function_default_options_get",
                     o.workspace, o.customFunction>>

C16_Witness ==
    /\ libCall[1] = "with_defaults"
    /\ libCall[2].variant = "solver"
    /\ libCall[3]["ncp"] = 1 /\ libCall[4]["solver"]["ncp"] = 2
    /\ libCall[3]["rtol"] = 1 /\ libCall[4]["solver"]["rtol"] = Absent
    /\ libCall[4]["compiler"]["rtol"] = 2
    /\ heap[libRet[2].values]["ncp"] = 2 /\ heap[libRet[2].values]["rtol"] = 1


\* C30: with_values is last-write-wins and idempotent.  For a bag o (the
\* first dictionary), r1 got from o and r2 got from r1 by with_values(m):
\* when m names every option in which r1 differs from o, r2 equals
\* o.with_values(m); when r1 already holds every value of m, r2 equals r1;
\* and with_values without overrides returns a bag equal to its receiver.
C30_LastWriteWinsIdempotent ==
    libCall[1] = "with_values" =>
        LET before == libCall[3]
            m == libCall[4]
            result == heap[libRet[2].values]
            named == {n \in OptionNames : m[n] # Absent}
        IN  /\ (\A n \in OptionNames : m[n] = Absent) => result = before
            /\ (\A n \in named : before[n] = m[n]) => result = before
            /\ \A n \in named : result[n] = m[n]
            /\ (Len(heap) = 3
                   /\ {n \in OptionNames : heap[2][n] # heap[1][n]} \subseteq named) =>
                   \A n \in OptionNames :
                       result[n] = IF n \in named THEN m[n] ELSE heap[1][n]

C30_Witness ==
    /\ libCall[1] = "with_values"
    /\ Len(heap) = 3
    /\ heap[1]["ncp"] = Absent /\ heap[1]["rtol"] = 2
    /\ heap[2]["ncp"] = 1 /\ heap[2]["rtol"] = 2
    /\ libCall[4]["ncp"] = 2 /\ libCall[4]["rtol"] = Absent
    /\ heap[3]["ncp"] = 2 /\ heap[3]["rtol"] = 2

(***************************************************************************)
(* Properties of projects and list operations (SpecProject).               *)
(***************************************************************************)
\* C17: two Project instances are equal iff their ids are equal and their
\* last-known definitions are equal, whether or not they are the same object
\* and whatever service handle each holds.
C17_ProjectEqualityStructural ==
    (libCall[1] = "__eq__" /\ libCall[3].kind = "Project") =>
        (libRet[2] <=> /\ libCall[2].id = libCall[3].id
                       /\ libCall[2].definition = libCall[3].definition)

C17_Witness ==
    /\ libCall[1] = "__eq__"
    /\ libCall[3].kind = "Project"
    /\ libCall[2].ref # libCall[3].ref
    /\ libCall[2].sal # libCall[3].sal
    /\ libCall[2].vcsUri # libCall[3].vcsUri
    /\ libCall[2].id = libCall[3].id
    /\ libCall[2].definition = libCall[3].definition
    /\ libRet = <<"bool", TRUE>>

\* C18: get_workspaces and get_projects return one entity per item of the
\* list response, in response order, each built from its own item; a
\* response without items yields the empty list.
C18_ListsMapEveryItem ==
    libCall[1] \in {"get_projects", "get_workspaces"} =>
        LET items == libCall[2]
            entities == libRet[2]
        IN  /\ libRet[1] = "list"
            /\ Len(entities) = Len(items)
            /\ items = <<>> => entities = <<>>
            /\ Len(libSal) = 1
            /\ \A i \in 1..Len(items) :
                   /\ entities[i].id = items[i].id
                   /\ entities[i].definition.name = items[i].definition.name
                   /\ entities[i].kind =
                          (IF libCall[1] = "get_projects"
                           THEN "Project" ELSE "Workspace")
                   /\ libCall[1] = "get_projects" =>
                          /\ entities[i].projectType = items[i].projectType
                          /\ entities[i].vcsUri =
                                 IF items[i].vcsUri = "" THEN <<"None">>
                                 ELSE <<"VcsUri", items[i].vcsUri>>

C18_Witness ==
    /\ libCall[1] = "get_projects"
    /\ Len(libCall[2]) = 2
    /\ libCall[2][1].id = "p2" /\ libCall[2][1].vcsUri = ""
    /\ libCall[2][2].id = "p1" /\ libCall[2][2].vcsUri # ""
    /\ libRet[2][1].id = "p2" /\ libRet[2][2].id = "p1"

\* C18 (empty response): a list response without items has been mapped.
C18_WitnessEmpty ==
    /\ libCall = <<"get_workspaces", <<>>>>
    /\ libRet = <<"list", <<>>>>

\* C20: upload_modelica_library raises ValueError and uploads nothing for a
\* path with an extension other than '.mo' and '.zip', and issues exactly
\* one upload of type MODELICA for '.mo' and '.zip'.
C20_OnlyMoOrZip ==
    libCall[1] = "upload_modelica_library" =>
        IF Lower(PathSuffix(libCall[3])) \in
               {<<".", "m", "o">>, <<".", "z", "i", "p">>}
        THEN /\ libRet[1] = "ProjectContent"
             /\ libSal =
                    <<<<"project_content_upload", libCall[3], libCall[2], "MODELICA">>>>
        ELSE PathSuffix(libCall[3]) # <<>> =>
                 /\ libRet = <<"ValueError">>
                 /\ libSal = <<>>


(***************************************************************************)
(* Properties of project reads (SpecRefresh).                              *)
(***************************************************************************)
\* A step that reads the project: the server's project stays, a call is made.
ReadStep ==
    /\ serverProject' = serverProject
    /\ <<libCall, libRet, libSal, projectDefinition>>'
           # <<libCall, libRet, libSal, projectDefinition>>

\* What a read returns is what the server holds when it is made.
ReadIsFresh ==
    ReadStep =>
        /\ libSal' = <<<<"project_get", serverProject.id>>>>
        /\ projectDefinition'.name = serverProject.definition.name
        /\ Len(projectDefinition'.content) = Len(serverProject.definition.content)
        /\ libCall'[1] = "definition" =>
               /\ libRet'[2].name = serverProject.definition.name
               /\ [i \in 1..Len(libRet'[2].content) |-> libRet'[2].content[i].id]
                      = [i \in 1..Len(serverProject.definition.content) |->
                            serverProject.definition.content[i].id]
        /\ libCall'[1] = "get_contents" =>
               [i \in 1..Len(libRet'[2]) |-> libRet'[2][i].content.id]
                   = LET all == serverProject.definition.content
                         kept == IF libCall'[2] = "None" THEN all
                                 ELSE SelectSeq(all,
                                         LAMBDA c : c.contentType = libCall'[2])
                     IN  [i \in 1..Len(kept) |-> kept[i].id]

\* C23: every read of Project.definition and every get_contents issues a
\* project_get and returns the data of the project as the server holds it at
\* that moment, whatever the server did since the previous read.
C23_NoStaleDefinition == [][ReadIsFresh]_vars

\* C23: get_contents has returned the filtered content of the project the
\* server holds, and the Project holds that project's definition.
C23_Witness ==
    /\ libCall = <<"get_contents", "MODELICA">>
    /\ Len(libRet[2]) = 1 /\ libRet[2][1].content.id = "c3"
    /\ serverProject.definition.name = "B"
    /\ projectDefinition.name = "B"

(***************************************************************************)
(* Properties of project matchings (SpecMatchings).                        *)
(***************************************************************************)
\* C14: get_project_matchings returns one entry per entry of the server's
\* response, in order, carrying the reference's id, the VCS URI of a
\* version-control reference of the definition with that id, and every
\* existing project whose id the server listed; no candidate is left out.
C14_MatchingsListCandidates ==
    (libCall[1] = "get_project_matchings" /\ libRet[1] = "ProjectMatchings") =>
        LET references == libCall[2]
            matchings == libCall[3]
            items == libCall[4]
            result == libRet[2]
        IN  /\ Len(result) = Len(matchings)
            /\ \A i \in 1..Len(matchings) :
                   /\ result[i].entry_id = matchings[i].entryId
                   /\ \E k \in 1..Len(references) :
                          /\ references[k].isVcs
                          /\ references[k].id = matchings[i].entryId
                          /\ references[k].vcsUri = result[i].vcs_uri
                   /\ {result[i].projects[k].id : k \in 1..Len(result[i].projects)}
                          = {items[k].id : k \in 1..Len(items)}
                               \cap Range(matchings[i].projects)
                   /\ Len(result[i].projects) =
                          Cardinality({k \in 1..Len(items) :
                              items[k].id \in Range(matchings[i].projects)})

C14_Witness ==
    /\ libCall[1] = "get_project_matchings"
    /\ libRet[1] = "ProjectMatchings"
    /\ Len(libCall[2]) = 2 /\ libCall[2][1].id # libCall[2][2].id
    /\ libCall[2][1].vcsUri = "u2" /\ libCall[2][2].vcsUri = "u1"
    /\ Len(libRet[2]) = 2
    /\ libRet[2][1].entry_id = "r2" /\ libRet[2][1].vcs_uri = "u1"
    /\ Len(libRet[2][1].projects) = 2
    /\ libRet[2][2].entry_id = "r1" /\ libRet[2][2].vcs_uri = "u2"
    /\ Len(libRet[2][2].projects) = 0


(***************************************************************************)
(* Properties of experiments (SpecExperiment).                             *)
(***************************************************************************)
\* A result accessor answers for the status the run has when it is called.
AccessorReadsRunStatus ==
    (libCall' # libCall /\ libCall'[1] \in {"get_variables", "get_trajectories"})
        => libCall'[2] = jobState

\* C12: get_variables and get_trajectories raise OperationNotCompleteError
\* when the run has not reached a terminal status, OperationFailureError
\* when it is FAILED or CANCELLED, and return results only when it is DONE.
C12_AccessorsByStatus ==
    /\ [][AccessorReadsRunStatus]_vars
    /\ [](libCall[1] \in {"get_variables", "get_trajectories"} =>
            /\ libRet[1] = "OperationNotCompleteError"
                   <=> libCall[2] \in {"NOT_STARTED", "RUNNING"}
            /\ libRet[1] = "OperationFailureError"
                   <=> libCall[2] \in {"FAILED", "CANCELLED"}
            /\ libRet[1] = "results" <=> libCall[2] = "DONE")

C12_Witness ==
    /\ libCall = <<"get_trajectories", "CANCELLED">>
    /\ jobState = "CANCELLED"
    /\ libRet = <<"OperationFailureError">>

\* C19: execute(with_cases=cs) issues one execute request naming the ids of
\* the cases of cs, preceded by one case_put per case of cs when
\* sync_case_changes is true, and no case_put when it is false or cs is empty.
C19_ExecuteSyncsCases ==
    (libCall[1] = "execute" /\ libCall[2][1] = "cases") =>
        LET cs == libCall[2][2]
            sync == libCall[3]
            puts == SelectSeq(libSal, LAMBDA r : r[1] = "case_put")
            runs == SelectSeq(libSal, LAMBDA r : r[1] = "experiment_execute")
        IN  /\ Len(runs) = 1
            /\ runs[1][4] = <<"ids", [i \in 1..Len(cs) |-> cs[i].id]>>
            /\ Len(libSal) = Len(puts) + 1
            /\ (sync /\ cs # <<>>) =>
                   /\ Len(puts) = Len(cs)
                   /\ \A i \in 1..Len(cs) : puts[i][4] = cs[i].id
            /\ (~sync \/ cs = <<>>) => puts = <<>>

C19_Witness ==
    /\ libCall[1] = "execute"
    /\ libCall[2][1] = "cases"
    /\ Len(libCall[2][2]) = 2
    /\ libCall[3]
    /\ Len(libSal) = 3
    /\ libSal[1][1] = "case_put" /\ libSal[2][1] = "case_put"
    /\ libSal[1][4] # libSal[2][4]


(***************************************************************************)
(* Properties of the import from a shared definition (SpecImport).         *)
(***************************************************************************)
\* C13: import_from_shared_definition submits the definition with the given
\* selections (none when there are none), returns a Workspace only when the
\* import is DONE, raises IllegalWorkspaceImport only when it FAILED, and
\* neither returns nor raises while the import is not terminal.
C13_ImportBlocksUntilTerminal ==
    /\ libCall[1] = "import_from_shared_definition" =>
           /\ Len(libSal) = 1
           /\ libSal[1][2] = [name |-> libCall[2]]
           /\ libSal[1][3] =
                  IF libCall[3][1] = "None" \/ libCall[3][2] = <<>>
                  THEN <<"None">>
                  ELSE <<"list",
                         [i \in 1..Len(libCall[3][2]) |->
                             [id |-> libCall[3][2][i].entry_id,
                              project |-> [id |-> libCall[3][2][i].project.id]]]>>
    /\ opPc \in {"returned", "raised"} => jobState \in TerminalStates
    /\ (opPc = "returned" \/ libRet[1] = "Workspace") =>
           /\ jobState = "DONE"
           /\ libRet = <<"Workspace", libCall[2]>>
    /\ (opPc = "raised" \/ libRet[1] = "IllegalWorkspaceImport") =>
           /\ jobState = "FAILED"
           /\ libRet = <<"IllegalWorkspaceImport">>
    /\ jobState \notin TerminalStates => libRet = <<"none">>

C13_Witness ==
    /\ libCall[1] = "import_from_shared_definition"
    /\ libCall[3][1] = "list" /\ Len(libCall[3][2]) = 2
    /\ elapsed >= 2
    /\ jobState = "DONE"
    /\ opPc = "returned"
    /\ libRet[1] = "Workspace"


(***************************************************************************)
(* Properties of experiment definitions (SpecDefinition).                  *)
(***************************************************************************)
\* C24: constructing a definition raises TypeError when fmu, custom_function
\* or options is not of its class, whatever the compilation status, raises
\* OperationFailureError when the classes are right and the compilation
\* failed, and leaves no definition behind in either case.
C24_TypeChecksBeforeCompilation ==
    libCall[1] = "new_definition" =>
        LET typed == /\ libCall[2].class = "ModelExecutable"
                     /\ libCall[3] = "CustomFunction"
                     /\ libCall[4] = "ExecutionOptions"
        IN  /\ ~typed <=> libRet = <<"TypeError">>
            /\ (typed /\ ~libCall[2].successful)
                   <=> libRet = <<"OperationFailureError">>
            /\ (typed /\ libCall[2].successful) <=> libRet[1] = "definition"
            /\ libRet[1] # "definition" => heap = <<>>
            /\ libRet[1] = "definition" =>
                   /\ libRet[2].fmu = libCall[2]
                   /\ libRet[2].simulation_log_level = libCall[5]
                   /\ heap[libRet[2].variable_modifiers] = NoModifiers

C24_Witness ==
    /\ libCall[1] = "new_definition"
    /\ libCall[2].class = "ModelExecutable" /\ ~libCall[2].successful
    /\ libCall[4] = "dict"
    /\ libRet = <<"TypeError">>

\* C25: with_modifiers leaves the receiver's variable_modifiers as they
\* were; it raises KeyError when a name given, in the dictionary or as a
\* keyword, is not a settable parameter, and otherwise returns another
\* definition with the receiver's fmu, custom function, options and log level.
C25_WithModifiersKeepsReceiver ==
    /\ [][DictsKept]_vars
    /\ [](libCall[1] = "with_modifiers" =>
            LET d == libCall[2]
                given == {n \in ModifierNames :
                             \/ libCall[5][n] # NoModifier
                             \/ libCall[4][1] = "dict" /\ libCall[4][2][n] # NoModifier}
            IN  /\ heap[d.variable_modifiers] = libCall[3]
                /\ libRet = <<"KeyError">> <=> "x" \in given
                /\ "x" \notin given =>
                       /\ libRet[1] = "definition"
                       /\ libRet[2].variable_modifiers # d.variable_modifiers
                       /\ libRet[2].fmu = d.fmu
                       /\ libRet[2].custom_function = d.custom_function
                       /\ libRet[2].options = d.options
                       /\ libRet[2].simulation_log_level = d.simulation_log_level)

C25_Witness ==
    /\ libCall[1] = "with_modifiers"
    /\ libCall[3]["J"] = "1"
    /\ libCall[5]["J"] = "2"
    /\ libRet[1] = "definition"
    /\ heap[libRet[2].variable_modifiers]["J"] = "2"
    /\ heap[libCall[2].variable_modifiers]["J"] = "1"

\* C25 (failure): with_modifiers has raised KeyError on a receiver that
\* holds modifiers.
C25_WitnessKeyError ==
    /\ libCall[1] = "with_modifiers"
    /\ libCall[3] # NoModifiers
    /\ libRet = <<"KeyError">>

\* C27: the definition returned by with_modifiers carries every modifier
\* given in the call and every modifier of the receiver whose name is not
\* given in the call.
C27_ModifiersAccumulate ==
    (libCall[1] = "with_modifiers" /\ libRet[1] = "definition") =>
        \A n \in ModifierNames :
            heap[libRet[2].variable_modifiers][n] =
                IF libCall[5][n] # NoModifier
                THEN StoredModifier(libCall[5][n])
                ELSE IF libCall[4][1] = "dict" /\ libCall[4][2][n] # NoModifier
                THEN StoredModifier(libCall[4][2][n])
                ELSE libCall[3][n]

(***************************************************************************)
(* Properties of the interactive selection (SpecSelection).                *)
(***************************************************************************)
\* The integer a typed line denotes, when it denotes one.
TypedNumbers(line) == IF IntOf(line)[1] = "int" THEN {IntOf(line)[2]} ELSE {}

\* C26: make_selection_interactive with exactly one candidate returns the
\* Selection of that candidate and reads no input; with n > 1 candidates a
\* typed k with 1 <= k <= n returns the Selection of the k-th listed project
\* and any other line raises ValueError.
C26_InteractiveSelection ==
    (libCall[1] = "make_selection_interactive") =>
        LET projects == libCall[3]
            n == Len(projects)
            typed == TypedNumbers(libCall[4]) \cap (1..n)
        IN  /\ n = 1 => libRet = <<"Selection", libCall[2], projects[1], 0>>
            /\ n > 1 =>
                  /\ \A k \in typed :
                        libRet = <<"Selection", libCall[2], projects[k], 1>>
                  /\ typed = {} => libRet[1] = "ValueError"

\* C26: with three candidates the line "2" has selected the second listed
\* project.
C26_Witness ==
    /\ libCall[1] = "make_selection_interactive"
    /\ libCall[3] = <<"p3", "p1", "p2">>
    /\ libCall[4] = <<"2">>
    /\ libRet = <<"Selection", libCall[2], "p1", 1>>

\* C26 (one candidate): the only candidate has been selected with no input
\* read.
C26_WitnessSingle ==
    /\ libCall[1] = "make_selection_interactive"
    /\ Len(libCall[3]) = 1
    /\ libRet = <<"Selection", libCall[2], libCall[3][1], 0>>

\* C26 (failure): with two candidates the line "3" has raised ValueError.
C26_WitnessValueError ==
    /\ libCall[1] = "make_selection_interactive"
    /\ Len(libCall[3]) = 2
    /\ libCall[4] = <<"3">>
    /\ libRet[1] = "ValueError"

\* C29: with n > 1 candidates the choices named in the 'Invalid choice'
\* message are exactly the numbers the prompt accepts, 1..n.
C29_MessageNamesAcceptedChoices ==
    (/\ libCall[1] = "make_selection_interactive"
     /\ Len(libCall[3]) > 1
     /\ libRet[1] = "ValueError") =>
        {libRet[2][i] : i \in 1..Len(libRet[2])} = 1..Len(libCall[3])

====
